---- MODULE Spec2Model ----
(***************************************************************************)
(* Conversation and message orchestration of litverse-ai-nexus.            *)
(*                                                                         *)
(* Spec models the API-backed ChatInterface component                      *)
(* (src/src/components/ChatInterface.tsx, second revision, lines 134-668)  *)
(* together with the ChatAPI transport (src/unnamed/part_004) and          *)
(* handleApiResponse (src/src/lib/utils.ts).  React state is one variable  *)
(* per useState cell; every asynchronous handler is split at its awaits,   *)
(* and the values a handler's closure captured at the render it was        *)
(* started from are kept in the record of the request in flight.           *)
(***************************************************************************)
EXTENDS Integers, Sequences, FiniteSets, TLC

----------------------------------------------------------------------------
(* Bounds of the model *)

MaxSends == 2          \* accepted sends over one run
MaxConvs == 2          \* conversations that ever exist on the server
MaxListFetches == 2    \* getConversations requests in flight
MaxMsgFetches == 2     \* getConversationMessages requests in flight
MaxRenames == 1        \* accepted renames over one run
MaxEvents == 10        \* user actions and network completions of one run
MaxLen == 5            \* tokens of a raw message content
MaxMessages == 2       \* messages of a conversation the server answers with
MaxStored == 1         \* exchanges a stored conversation holds when it is loaded
MaxScopes == 2         \* libraries (with documents) the parent can select

----------------------------------------------------------------------------
(* Text.  A string is a sequence of tokens; " " is white space. *)

RECURSIVE TrimStart(_)
TrimStart(s) ==
    IF s = <<>> THEN <<>>
    ELSE IF Head(s) = " " THEN TrimStart(Tail(s)) ELSE s

RECURSIVE TrimEnd(_)
TrimEnd(s) ==
    IF s = <<>> THEN <<>>
    ELSE IF s[Len(s)] = " " THEN TrimEnd(SubSeq(s, 1, Len(s) - 1)) ELSE s

Trim(s) == TrimEnd(TrimStart(s))

Texts == { <<" ">>, <<"hello">> }

GreetingText == <<"Hello! I'm your AI reading assistant.">>
ApologyText == <<"Sorry, I encountered an error processing your request. Please try again.">>
AnswerText == <<"answer">>

----------------------------------------------------------------------------
(* Transport: HTTP responses and handleApiResponse *)

OkResponse == [ok |-> TRUE, status |-> 200, detail |-> "", statusText |-> "OK"]

ErrorResponses ==
    { [ok |-> FALSE, status |-> 500, detail |-> "LLM unavailable",
       statusText |-> "Internal Server Error"] }

\* fetch() itself rejects: no response was received
NetworkFailure == [ok |-> FALSE, status |-> 0, detail |-> "", statusText |-> ""]

Outcomes == {OkResponse} \cup ErrorResponses \cup {NetworkFailure}

\* the message of the Error thrown for a non-ok response
ErrorMessage(response) ==
    IF response.detail # "" THEN response.detail
    ELSE IF response.statusText # "" THEN response.statusText
    ELSE "Something went wrong"

handleApiResponse(response) ==
    IF ~response.ok
    THEN [threw |-> TRUE, message |-> ErrorMessage(response)]
    ELSE [threw |-> FALSE, message |-> ""]

\* a ChatAPI call that goes through handleApiResponse, as its caller sees it
Settle(outcome) ==
    IF outcome.status = 0
    THEN [threw |-> TRUE, message |-> "Failed to fetch"]
    ELSE handleApiResponse(outcome)

----------------------------------------------------------------------------
(* Values *)

ConvIds == 1 .. MaxConvs
NoConv == [id |-> 0, title |-> "none"]
DefaultTitle == "New"
Titles == {DefaultTitle, "Renamed"}
\* what window.prompt returns: null (cancel), "" or a title
PromptInputs == {"null", ""} \cup Titles

Greeting ==
    [type |-> "assistant", content |-> GreetingText, conv |-> 0, send |-> 0]

UserMessage(k, text) ==
    [type |-> "user", content |-> text, conv |-> 0, send |-> k]

AiMessage(k, c) ==
    [type |-> "assistant", content |-> AnswerText, conv |-> c, send |-> k]

ErrorMessageEntry(k) ==
    [type |-> "assistant", content |-> ApologyText, conv |-> 0, send |-> k]

\* the n exchanges the server stores for conversation c, as loadMessages
\* formats them
RECURSIVE StoredMessages(_, _)
StoredMessages(c, n) ==
    IF n = 0 THEN <<>>
    ELSE StoredMessages(c, n - 1) \o
         << [type |-> "user", content |-> <<"hello">>, conv |-> c, send |-> 0],
            [type |-> "assistant", content |-> AnswerText, conv |-> c, send |-> 0] >>

----------------------------------------------------------------------------
VARIABLES
    selectedLibrary,      \* prop: TRUE when a library is selected
    scope,                \* props: the library (and document) selected, by number
    messages,             \* useState<Message[]>
    inputMessage,         \* useState("")
    loading,              \* useState(false)
    conversations,        \* useState<Conversation[]>: set of [id, title]
    activeConversation,   \* useState<Conversation | null>
    activeFromList,       \* activeConversation is the very object held in conversations
    resumePending,        \* useState(false)
    toast,                \* the notification the last step raised, "none" if it raised none
    sends,                \* handleSendMessage calls suspended at an await
    nextSend,             \* number of accepted sends so far
    convFetches,          \* getConversations requests in flight, oldest first
    msgFetches,           \* getConversationMessages requests in flight, oldest first
    renames,              \* updateConversation requests in flight
    nextRename,           \* number of accepted renames so far
    deletes,              \* deleteConversation requests in flight
    prompted,             \* what window.prompt returned in the last step, if asked
    \* the reasoning parse and the formatting of loaded messages, on their own
    raw,                  \* msg.content / response.content
    parsed,               \* content and reasoning the parse made of raw
    messagesData,         \* what getConversationMessages answered
    formattedMessages,    \* formattedMessages
    parsePc,              \* "content" / "list": what is still to run; "done"
    \* one call of the transport layer, on its own
    operation,            \* the ChatAPI function called
    response,             \* the Response that fetch resolved with
    result,               \* what the call did: returned, or threw an Error
    events,               \* user actions and network completions so far
    srvTitle,             \* server: title of each conversation, "absent" if none
    convScope,            \* server: library (and document) of each conversation, 0 if none
    \* EnhancedChatInterface (src/src/components/EnhancedChatInterface.tsx)
    selectedSession,      \* prop: id of the selected session, 0 for none
    currentSession,       \* useState<ChatSession | null>: its id, 0 for null
    eMessages,            \* useState<Message[]>
    eInputMessage,        \* useState('')
    eLoading,             \* useState(false)
    eSend,                \* the handleSendMessage call under way
    eSent,                \* number of accepted sends so far
    eLoads,               \* loadChatHistory requests in flight, oldest first
    chatSessions,         \* table chat_sessions: ids of the rows
    chatMessages,         \* table chat_messages: rows in insertion order
    \* the ChatInterface revision of src/unnamed/part_006
    currentConversation,  \* useState<ApiConversation | null>: its id, 0 for null
    pMessages,            \* useState<any[]>
    pInputMessage,        \* useState("")
    pLoading,             \* useState(false)
    pConversations,       \* useState<ApiConversation[]>: ids, first to last
    pSend,                \* the handleSendMessage call under way or finished last
    pSent,                \* number of accepted sends so far
    pListFetch,           \* the getConversations request of the mount effect is in flight
    pLoads,               \* loadConversation requests in flight, oldest first
    pCreates,             \* createNewConversation calls of the New Chat button in flight
    pDeletes              \* deleteConversation requests in flight

chatVars == << selectedLibrary, messages, inputMessage, loading, conversations,
               activeConversation, activeFromList, resumePending,
               sends, nextSend, convFetches, msgFetches, renames, nextRename >>

enhancedVars == << selectedSession, currentSession, eMessages, eInputMessage,
                   eLoading, eSend, eSent, eLoads, chatSessions, chatMessages >>

part006Vars == << currentConversation, pMessages, pInputMessage, pLoading,
                  pConversations, pSend, pSent, pListFetch, pLoads, pCreates,
                  pDeletes >>

parseVars == << raw, parsed, messagesData, formattedMessages, parsePc >>

transportVars == << operation, response, result >>

pureVars == << parseVars, transportVars >>

vars == << chatVars, deletes, prompted, pureVars, enhancedVars, part006Vars, toast, events,
          srvTitle, scope, convScope >>

server == << srvTitle, convScope >>

----------------------------------------------------------------------------
(* Helpers *)

RemoveAt(s, i) == SubSeq(s, 1, i - 1) \o SubSeq(s, i + 1, Len(s))

\* requests older than position i have been overtaken by the response of i
MarkOlderStale(s, i) ==
    [j \in 1 .. Len(s) |-> IF j < i THEN [s[j] EXCEPT !.stale = TRUE] ELSE s[j]]

Scopes == 1 .. MaxScopes
InitialScope == 1

\* GET /conversations/{libraryId}: what the server holds for scope l
ServerList(l) ==
    { [id |-> c, title |-> srvTitle[c]] :
        c \in {d \in ConvIds : srvTitle[d] # "absent" /\ convScope[d] = l} }

\* a getConversations request for scope l
ListFetch(l) == [stale |-> FALSE, scope |-> l]

\* a new getConversations request, issued by loadConversations() in the
\* current render
NewListFetch == ListFetch(scope)

\* loadConversations() of a render with library lib and scope l: returns
\* without a request when no library is selected
loadConversations(lib, l, fetches) ==
    IF ~lib THEN fetches ELSE Append(fetches, ListFetch(l))

\* one more event of the run
Tick == events < MaxEvents /\ events' = events + 1

ListFetchRoom == Len(convFetches) < MaxListFetches

\* a new getConversationMessages request, issued by loadMessages()
NewMsgFetch(c) == [conv |-> c, stale |-> FALSE]

----------------------------------------------------------------------------
(* Construction: the state after the mount effects have run *)

\* the initialConversation prop: absent, or a conversation of the server
InitialConversations == {NoConv, [id |-> 1, title |-> DefaultTitle]}

ChatMount(library, initialConversation) ==
    /\ selectedLibrary = library
    /\ scope = InitialScope
    /\ messages = << Greeting >>
    /\ inputMessage = <<>>
    /\ loading = FALSE
    /\ conversations = {}
    /\ activeConversation = initialConversation
    /\ activeFromList = FALSE
    /\ resumePending = (activeConversation # NoConv)
    /\ toast = "none"
    /\ sends = {}
    /\ nextSend = 0
    /\ convFetches = loadConversations(selectedLibrary, scope, <<>>)
    /\ msgFetches = <<>>
    /\ renames = {}
    /\ nextRename = 0
    /\ deletes = {}
    /\ prompted = "unasked"

ChatInit ==
    \E library \in BOOLEAN, initialConversation \in InitialConversations :
        ChatMount(library, initialConversation)

ServerInit ==
    /\ events = 0
    /\ srvTitle = [c \in ConvIds |-> IF c = 1 THEN DefaultTitle ELSE "absent"]
    /\ convScope = [c \in ConvIds |-> IF c = 1 THEN InitialScope ELSE 0]

----------------------------------------------------------------------------
(* The input field and handleSendMessage *)

\* the footer is rendered only when no resume is pending, and its input and
\* button are disabled while loading
InputEnabled == ~resumePending /\ ~loading

setInputMessage(t) ==
    /\ InputEnabled
    /\ t # inputMessage
    /\ inputMessage' = t
    /\ toast' = "none"
    /\ UNCHANGED << selectedLibrary, messages, loading, conversations,
                    activeConversation, activeFromList, resumePending,
                    sends, nextSend, convFetches, msgFetches, renames, nextRename, server >>

\* the request handleSendMessage suspends on first
FirstRequest(k, active) ==
    [k |-> k,
     pc |-> IF active = NoConv THEN "create" ELSE "submit",
     conv |-> active.id,
     isNew |-> active = NoConv,
     scope |-> scope]

\* handleSendMessage without its two guards
handleSendMessageUnguarded ==
    /\ InputEnabled
    /\ nextSend < MaxSends
    /\ nextSend' = nextSend + 1
    /\ messages' = Append(messages, UserMessage(nextSend + 1, inputMessage))
    /\ inputMessage' = <<>>
    /\ loading' = TRUE
    /\ sends' = sends \cup {FirstRequest(nextSend + 1, activeConversation)}
    /\ toast' = "none"
    /\ UNCHANGED << selectedLibrary, conversations, activeConversation,
                    activeFromList, resumePending, convFetches, msgFetches,
                    renames, nextRename, server >>

handleSendMessage ==
    /\ InputEnabled
    /\ IF Trim(inputMessage) = <<>>
       THEN /\ toast' = "none"
            /\ UNCHANGED << messages, inputMessage, loading, sends, nextSend >>
       ELSE IF ~selectedLibrary
       THEN /\ toast' = "Please select a library first"
            /\ UNCHANGED << messages, inputMessage, loading, sends, nextSend >>
       ELSE /\ nextSend < MaxSends
            /\ nextSend' = nextSend + 1
            /\ messages' = Append(messages, UserMessage(nextSend + 1, inputMessage))
            /\ inputMessage' = <<>>
            /\ loading' = TRUE
            /\ sends' = sends \cup {FirstRequest(nextSend + 1, activeConversation)}
            /\ toast' = "none"
    /\ UNCHANGED << selectedLibrary, conversations, activeConversation,
                    activeFromList, resumePending, convFetches, msgFetches,
                    renames, nextRename, server >>

\* a catch block that takes the optimistic user message back
SendFailedRollback(s) ==
    /\ toast' = "Failed to send message"
    /\ messages' = Append(SelectSeq(messages, LAMBDA m : ~(m.type = "user" /\ m.send = s.k)),
                          ErrorMessageEntry(s.k))
    /\ loading' = FALSE
    /\ sends' = sends \ {s}

\* catch and finally of handleSendMessage
SendFailed(s) ==
    /\ toast' = "Failed to send message"
    /\ messages' = Append(messages, ErrorMessageEntry(s.k))
    /\ loading' = FALSE
    /\ sends' = sends \ {s}

FreeConvIds == {c \in ConvIds : srvTitle[c] = "absent"}

\* await ChatAPI.createConversation(...) settles
createConversationDone(s, outcome) ==
    /\ s \in sends
    /\ s.pc = "create"
    /\ IF Settle(outcome).threw
       THEN /\ SendFailed(s)
            /\ UNCHANGED << activeConversation, activeFromList, resumePending,
                            server >>
       ELSE /\ FreeConvIds # {}
            /\ LET c == CHOOSE d \in FreeConvIds : \A e \in FreeConvIds : d <= e IN
               /\ srvTitle' = [srvTitle EXCEPT ![c] = DefaultTitle]
               /\ convScope' = [convScope EXCEPT ![c] = s.scope]
               /\ activeConversation' = [id |-> c, title |-> DefaultTitle]
               /\ activeFromList' = FALSE
               /\ resumePending' = TRUE
               /\ sends' = (sends \ {s}) \cup {[s EXCEPT !.pc = "persist", !.conv = c]}
            /\ toast' = "none"
            /\ UNCHANGED << messages, loading >>
    /\ UNCHANGED << selectedLibrary, inputMessage, conversations, nextSend,
                    convFetches, msgFetches, renames, nextRename >>

\* await ChatAPI.sendMessage(...) settles
sendMessageDone(s, outcome) ==
    /\ s \in sends
    /\ s.pc \in {"persist", "submit"}
    /\ IF Settle(outcome).threw
       THEN /\ SendFailed(s)
            /\ UNCHANGED << convFetches, server >>
       ELSE /\ srvTitle[s.conv] # "absent"
            /\ toast' = "none"
            /\ IF s.pc = "persist"
               THEN /\ sends' = (sends \ {s}) \cup {[s EXCEPT !.pc = "submit"]}
                    /\ UNCHANGED << messages, loading, convFetches >>
               ELSE /\ messages' = Append(messages, AiMessage(s.k, s.conv))
                    /\ s.isNew => ListFetchRoom
                    /\ convFetches' = IF s.isNew
                                      THEN loadConversations(selectedLibrary, s.scope, convFetches)
                                      ELSE convFetches
                    /\ loading' = FALSE
                    /\ sends' = sends \ {s}
            /\ UNCHANGED server
    /\ UNCHANGED << selectedLibrary, inputMessage, conversations,
                    activeConversation, activeFromList, resumePending,
                    nextSend, msgFetches, renames, nextRename >>

----------------------------------------------------------------------------
(* Session lifecycle *)

\* startNewConversation without its setMessages call
startNewConversationKeep ==
    /\ activeConversation' = NoConv
    /\ activeFromList' = FALSE
    /\ messages' = IF activeConversation # NoConv THEN << Greeting >> ELSE messages
    /\ resumePending' = IF activeConversation # NoConv THEN FALSE ELSE resumePending
    /\ toast' = "none"
    /\ UNCHANGED << selectedLibrary, inputMessage, loading, conversations,
                    sends, nextSend, convFetches, msgFetches, renames, nextRename, server >>

startNewConversation ==
    /\ activeConversation' = NoConv
    /\ activeFromList' = FALSE
    /\ messages' = << Greeting >>
    /\ resumePending' = IF activeConversation # NoConv THEN FALSE ELSE resumePending
    /\ toast' = "none"
    /\ UNCHANGED << selectedLibrary, inputMessage, loading, conversations,
                    sends, nextSend, convFetches, msgFetches, renames, nextRename, server >>

\* setActiveConversation with the object already held is no state change
SameObject(conversation) ==
    activeFromList /\ activeConversation = conversation

\* a selection that loads the messages at once, without the resume prompt
selectConversationEager(conversation) ==
    /\ conversation \in conversations
    /\ Len(msgFetches) < MaxMsgFetches
    /\ activeConversation' = conversation
    /\ activeFromList' = TRUE
    /\ resumePending' = FALSE
    /\ loading' = TRUE
    /\ msgFetches' = Append(msgFetches, NewMsgFetch(conversation.id))
    /\ toast' = "none"
    /\ UNCHANGED << selectedLibrary, messages, inputMessage, conversations,
                    sends, nextSend, convFetches, renames, nextRename, server >>

selectConversation(conversation) ==
    /\ conversation \in conversations
    /\ IF SameObject(conversation)
       THEN UNCHANGED << activeConversation, activeFromList, resumePending >>
       ELSE /\ activeConversation' = conversation
            /\ activeFromList' = TRUE
            /\ resumePending' = TRUE
    /\ toast' = "none"
    /\ UNCHANGED << selectedLibrary, messages, inputMessage, loading,
                    conversations, sends, nextSend, convFetches, msgFetches,
                    renames, nextRename, server >>

\* loadMessages() up to its await
loadMessages(active) ==
    IF active = NoConv
    THEN UNCHANGED << loading, msgFetches >>
    ELSE /\ Len(msgFetches) < MaxMsgFetches
         /\ loading' = TRUE
         /\ msgFetches' = Append(msgFetches, NewMsgFetch(active.id))

handleResume ==
    /\ resumePending
    /\ resumePending' = FALSE
    /\ loadMessages(activeConversation)
    /\ toast' = "none"
    /\ UNCHANGED << selectedLibrary, messages, inputMessage, conversations,
                    activeConversation, activeFromList, sends, nextSend,
                    convFetches, renames, nextRename, server >>

\* a loadMessages whose catch block empties the message list
loadMessagesDoneClearing(i, outcome, n) ==
    /\ i \in 1 .. Len(msgFetches)
    /\ IF Settle(outcome).threw
       THEN /\ toast' = "Failed to load conversation messages"
            /\ msgFetches' = RemoveAt(msgFetches, i)
            /\ messages' = <<>>
       ELSE /\ srvTitle[msgFetches[i].conv] # "absent"
            /\ messages' = StoredMessages(msgFetches[i].conv, n)
            /\ msgFetches' = RemoveAt(MarkOlderStale(msgFetches, i), i)
            /\ toast' = "none"
    /\ loading' = FALSE
    /\ UNCHANGED << selectedLibrary, inputMessage, conversations,
                    activeConversation, activeFromList, resumePending, sends,
                    nextSend, convFetches, renames, nextRename, server >>

\* await ChatAPI.getConversationMessages(...) settles in loadMessages
loadMessagesDone(i, outcome, n) ==
    /\ i \in 1 .. Len(msgFetches)
    /\ IF Settle(outcome).threw
       THEN /\ toast' = "Failed to load conversation messages"
            /\ msgFetches' = RemoveAt(msgFetches, i)
            /\ UNCHANGED messages
       ELSE /\ srvTitle[msgFetches[i].conv] # "absent"
            /\ messages' = StoredMessages(msgFetches[i].conv, n)
            /\ msgFetches' = RemoveAt(MarkOlderStale(msgFetches, i), i)
            /\ toast' = "none"
    /\ loading' = FALSE
    /\ UNCHANGED << selectedLibrary, inputMessage, conversations,
                    activeConversation, activeFromList, resumePending, sends,
                    nextSend, convFetches, renames, nextRename, server >>

\* await ChatAPI.getConversations(...) settles in loadConversations
loadConversationsDone(i, outcome) ==
    /\ i \in 1 .. Len(convFetches)
    /\ IF Settle(outcome).threw
       THEN /\ toast' = "Failed to load conversation history"
            /\ convFetches' = RemoveAt(convFetches, i)
            /\ UNCHANGED << conversations, activeFromList >>
       ELSE /\ conversations' = ServerList(convFetches[i].scope)
            /\ activeFromList' = FALSE
            /\ convFetches' = RemoveAt(MarkOlderStale(convFetches, i), i)
            /\ toast' = "none"
    /\ UNCHANGED << selectedLibrary, messages, inputMessage, loading,
                    activeConversation, resumePending, sends, nextSend,
                    msgFetches, renames, nextRename, server >>

\* the parent passes another selectedLibrary or selectedDocument: the effect
\* on [selectedLibrary, selectedDocument] reloads the list of conversations
selectScope(l) ==
    /\ selectedLibrary
    /\ l \in Scopes \ {scope}
    /\ scope' = l
    /\ ListFetchRoom
    /\ convFetches' = loadConversations(selectedLibrary, l, convFetches)
    /\ toast' = "none"
    /\ UNCHANGED << selectedLibrary, messages, inputMessage, loading,
                    conversations, activeConversation, activeFromList,
                    resumePending, sends, nextSend, msgFetches, renames,
                    nextRename, server >>

\* renameConversation sending whatever the prompt returned, unless cancelled
renameConversationUnguarded(conversation, newTitle) ==
    /\ conversation \in conversations
    /\ prompted' = newTitle
    /\ IF newTitle = "null"
       THEN UNCHANGED << renames, nextRename >>
       ELSE /\ nextRename < MaxRenames
            /\ nextRename' = nextRename + 1
            /\ renames' = renames \cup
                 {[id |-> conversation.id, title |-> newTitle,
                   active |-> activeConversation, scope |-> scope]}
    /\ toast' = "none"
    /\ UNCHANGED << selectedLibrary, messages, inputMessage, loading,
                    conversations, activeConversation, activeFromList,
                    resumePending, sends, nextSend, convFetches, msgFetches,
                    server >>

renameConversation(conversation, newTitle) ==
    /\ conversation \in conversations
    /\ prompted' = newTitle
    /\ IF newTitle \in {"null", ""} \/ newTitle = conversation.title
       THEN UNCHANGED << renames, nextRename >>
       ELSE /\ nextRename < MaxRenames
            /\ nextRename' = nextRename + 1
            /\ renames' = renames \cup
                 {[id |-> conversation.id, title |-> newTitle,
                   active |-> activeConversation, scope |-> scope]}
    /\ toast' = "none"
    /\ UNCHANGED << selectedLibrary, messages, inputMessage, loading,
                    conversations, activeConversation, activeFromList,
                    resumePending, sends, nextSend, convFetches, msgFetches,
                    server >>

\* await ChatAPI.updateConversation(...) settles
updateConversationDone(r, outcome) ==
    /\ r \in renames
    /\ renames' = renames \ {r}
    /\ IF Settle(outcome).threw
       THEN /\ toast' = "Failed to rename conversation"
            /\ UNCHANGED << activeConversation, activeFromList, resumePending,
                            convFetches, server >>
       ELSE /\ srvTitle[r.id] # "absent"
            /\ srvTitle' = [srvTitle EXCEPT ![r.id] = r.title]
            /\ UNCHANGED convScope
            /\ ListFetchRoom
            /\ convFetches' = loadConversations(selectedLibrary, r.scope, convFetches)
            /\ IF r.active # NoConv /\ r.active.id = r.id
               THEN /\ activeConversation' = [r.active EXCEPT !.title = r.title]
                    /\ activeFromList' = FALSE
                    /\ resumePending' = TRUE
               ELSE UNCHANGED << activeConversation, activeFromList, resumePending >>
            /\ toast' = "Conversation renamed successfully"
    /\ UNCHANGED << selectedLibrary, messages, inputMessage, loading,
                    conversations, sends, nextSend, msgFetches, nextRename >>

\* deleteConversation up to its await; confirmed is the answer to confirm()
deleteConversation(conversation, confirmed) ==
    /\ conversation \in conversations
    /\ deletes' = IF confirmed
                  THEN deletes \cup {[id |-> conversation.id, active |-> activeConversation,
                                       scope |-> scope]}
                  ELSE deletes
    /\ toast' = "none"
    /\ UNCHANGED << chatVars, server >>

\* await ChatAPI.deleteConversation(conversationId) settles; the handler
\* tests the activeConversation of the render it was called in
deleteConversationDone(d, outcome) ==
    /\ d \in deletes
    /\ deletes' = deletes \ {d}
    /\ IF outcome.ok /\ srvTitle[d.id] # "absent"
       THEN /\ srvTitle' = [srvTitle EXCEPT ![d.id] = "absent"]
            /\ convScope' = [convScope EXCEPT ![d.id] = 0]
            /\ toast' = "Conversation deleted successfully"
            /\ IF d.active.id = d.id
               THEN /\ activeConversation' = NoConv
                    /\ activeFromList' = FALSE
                    /\ messages' = << Greeting >>
                    /\ resumePending' =
                          IF activeConversation # NoConv THEN FALSE ELSE resumePending
               ELSE UNCHANGED << activeConversation, activeFromList, messages,
                                 resumePending >>
            /\ ListFetchRoom
            /\ convFetches' = loadConversations(selectedLibrary, d.scope, convFetches)
       ELSE /\ toast' = "Failed to delete conversation"
            /\ UNCHANGED << activeConversation, activeFromList, messages,
                            resumePending, convFetches, server >>
    /\ UNCHANGED << selectedLibrary, inputMessage, loading, conversations,
                    sends, nextSend, msgFetches, renames, nextRename >>

----------------------------------------------------------------------------
----------------------------------------------------------------------------
(* EnhancedChatInterface: the chat bound to the chat_sessions and          *)
(* chat_messages tables                                                    *)

SessionIds == 1 .. MaxConvs
EIdle == [pc |-> "idle", session |-> 0, text |-> <<>>, completed |-> 0]

\* a row of chat_messages
Row(role, content, session) ==
    [role |-> role, content |-> content, session |-> session]

\* .from('chat_messages').select('*').eq('session_id', sessionId)
RowsOf(session) == SelectSeq(chatMessages, LAMBDA r : r.session = session)

\* the effect on selectedSession
SessionEffect(session) ==
    IF session # 0
    THEN /\ currentSession' = session
         /\ Len(eLoads) < MaxMsgFetches
         /\ eLoads' = Append(eLoads, session)
         /\ UNCHANGED eMessages
    ELSE /\ currentSession' = 0
         /\ eMessages' = <<>>
         /\ UNCHANGED eLoads

EnhancedMount(session) ==
    /\ selectedSession = session
    /\ currentSession = selectedSession
    /\ eMessages = <<>>
    /\ eInputMessage = <<>>
    /\ eLoading = FALSE
    /\ eSend = EIdle
    /\ eSent = 0
    /\ eLoads = IF selectedSession # 0 THEN << selectedSession >> ELSE <<>>
    /\ chatSessions = {1}
    /\ chatMessages = << Row("user", <<"hello">>, 1) >>

EnhancedInit == \E session \in {0, 1} : EnhancedMount(session)

\* the parent passes another selectedSession
selectSession(session) ==
    /\ session \in chatSessions \cup {0}
    /\ session # selectedSession
    /\ selectedSession' = session
    /\ SessionEffect(session)
    /\ toast' = "none"
    /\ UNCHANGED << eInputMessage, eLoading, eSend, eSent, chatSessions,
                    chatMessages >>

\* await of the select in loadChatHistory settles
loadChatHistoryDone(i, ok) ==
    /\ i \in 1 .. Len(eLoads)
    /\ eLoads' = RemoveAt(eLoads, i)
    /\ IF ok
       THEN /\ eMessages' = RowsOf(eLoads[i])
            /\ toast' = "none"
       ELSE /\ toast' = "Failed to load chat history"
            /\ UNCHANGED eMessages
    /\ UNCHANGED << selectedSession, currentSession, eInputMessage, eLoading,
                    eSend, eSent, chatSessions, chatMessages >>

eSetInputMessage(t) ==
    /\ ~eLoading
    /\ t # eInputMessage
    /\ eInputMessage' = t
    /\ toast' = "none"
    /\ UNCHANGED << selectedSession, currentSession, eMessages, eLoading,
                    eSend, eSent, eLoads, chatSessions, chatMessages >>

\* handleSendMessage up to its first await
eHandleSendMessage ==
    /\ ~eLoading
    /\ toast' = "none"
    /\ IF Trim(eInputMessage) = <<>>
       THEN UNCHANGED << eInputMessage, eLoading, eSend, eSent >>
       ELSE /\ eSent < MaxSends
            /\ eSent' = eSent + 1
            /\ eInputMessage' = <<>>
            /\ eLoading' = TRUE
            /\ eSend' = [pc |-> IF currentSession = 0 THEN "getUser" ELSE "saveUser",
                         session |-> currentSession,
                         text |-> Trim(eInputMessage),
                         completed |-> 0]
    /\ UNCHANGED << selectedSession, currentSession, eMessages, eLoads,
                    chatSessions, chatMessages >>

\* createNewSession: await supabase.auth.getUser() settles
getUserDone(signedIn) ==
    /\ eSend.pc = "getUser"
    /\ eSend' = IF signedIn
                THEN [eSend EXCEPT !.pc = "create"]
                ELSE EIdle
    /\ toast' = "none"
    /\ UNCHANGED << selectedSession, currentSession, eMessages, eInputMessage,
                    eLoading, eSent, eLoads, chatSessions, chatMessages >>

FreeSessionIds == SessionIds \ chatSessions

\* createNewSession: await of the insert into chat_sessions settles
createNewSessionDone(ok) ==
    /\ eSend.pc = "create"
    /\ IF ok
       THEN /\ FreeSessionIds # {}
            /\ LET id == CHOOSE d \in FreeSessionIds : \A e \in FreeSessionIds : d <= e IN
               /\ chatSessions' = chatSessions \cup {id}
               /\ currentSession' = id
               /\ eSend' = [eSend EXCEPT !.pc = "saveUser", !.session = id,
                                         !.completed = @ + 1]
            /\ toast' = "none"
       ELSE /\ toast' = "Failed to create chat session"
            /\ eSend' = EIdle
            /\ UNCHANGED << chatSessions, currentSession >>
    /\ UNCHANGED << selectedSession, eMessages, eInputMessage, eLoading,
                    eSent, eLoads, chatMessages >>

\* saveMessage: the insert into chat_messages settles; null on a failure
saveMessage(ok, role, content, session) ==
    IF ok
    THEN /\ chatMessages' = Append(chatMessages, Row(role, content, session))
         /\ eMessages' = Append(eMessages, Row(role, content, session))
    ELSE UNCHANGED << chatMessages, eMessages >>

\* await saveMessage(sessionToUse.id, 'user', userMessage) settles
saveUserMessageDone(ok) ==
    /\ eSend.pc = "saveUser"
    /\ saveMessage(ok, "user", eSend.text, eSend.session)
    /\ eSend' = [eSend EXCEPT !.pc = "timer", !.completed = @ + 1]
    /\ toast' = "none"
    /\ UNCHANGED << selectedSession, currentSession, eInputMessage, eLoading,
                    eSent, eLoads, chatSessions >>

\* the setTimeout callback starts: saveMessage of the mock reply is issued
mockResponseTimer ==
    /\ eSend.pc = "timer"
    /\ eSend' = [eSend EXCEPT !.pc = "saveAssistant"]
    /\ toast' = "none"
    /\ UNCHANGED << selectedSession, currentSession, eMessages, eInputMessage,
                    eLoading, eSent, eLoads, chatSessions, chatMessages >>

\* await saveMessage(sessionToUse.id, 'assistant', ...) settles
saveAssistantMessageDone(ok) ==
    /\ eSend.pc = "saveAssistant"
    /\ saveMessage(ok, "assistant", AnswerText, eSend.session)
    /\ eLoading' = FALSE
    /\ eSend' = EIdle
    /\ toast' = "none"
    /\ UNCHANGED << selectedSession, currentSession, eInputMessage, eSent,
                    eLoads, chatSessions >>

\* a step of EnhancedChatInterface
EnhancedStep ==
    Tick /\ UNCHANGED << chatVars, deletes, prompted, pureVars, part006Vars, scope, server >>

NextEnhanced ==
    \/ EnhancedStep /\ \E x \in SessionIds \cup {0} : selectSession(x)
    \/ EnhancedStep /\ \E i \in 1 .. Len(eLoads), ok \in BOOLEAN : loadChatHistoryDone(i, ok)
    \/ EnhancedStep /\ \E t \in Texts : eSetInputMessage(t)
    \/ EnhancedStep /\ eHandleSendMessage
    \/ EnhancedStep /\ \E signedIn \in BOOLEAN : getUserDone(signedIn)
    \/ EnhancedStep /\ \E ok \in BOOLEAN : createNewSessionDone(ok)
    \/ EnhancedStep /\ \E ok \in BOOLEAN : saveUserMessageDone(ok)
    \/ EnhancedStep /\ mockResponseTimer
    \/ EnhancedStep /\ \E ok \in BOOLEAN : saveAssistantMessageDone(ok)

----------------------------------------------------------------------------
(* The ChatInterface revision of src/unnamed/part_006.  It renders its     *)
(* chat only when a library is selected, so a library is selected here.    *)

PartTitle == "Chat with library"
PIdle == [pc |-> "idle", k |-> 0, conv |-> 0, text |-> <<>>, newConv |-> FALSE,
          failed |-> FALSE, created |-> 0, appended |-> <<>>]

\* the simulated reply of the setTimeout callback
SimulatedResponse(k) ==
    [type |-> "assistant", content |-> <<"I understand you're asking about">>,
     conv |-> 0, send |-> k]

\* the Message POST /chat answers with
SentMessage(k, role, text, c) ==
    [type |-> role, content |-> text, conv |-> c, send |-> k]

RECURSIVE Descending(_)
Descending(ids) ==
    IF ids = {} THEN <<>>
    ELSE LET top == CHOOSE c \in ids : \A d \in ids : d <= c
         IN << top >> \o Descending(ids \ {top})

\* GET /conversations/{libraryId}: the ids, most recently created first
ServerIds == Descending({c \in ConvIds : srvTitle[c] # "absent"})

Part006Mount(initialConversation) ==
    /\ currentConversation = initialConversation
    /\ pMessages = <<>>
    /\ pInputMessage = <<>>
    /\ pLoading = FALSE
    /\ pConversations = <<>>
    /\ pSend = PIdle
    /\ pSent = 0
    /\ pListFetch = TRUE
    /\ pLoads = IF initialConversation # 0 THEN << initialConversation >> ELSE <<>>
    /\ pCreates = 0
    /\ pDeletes = {}

Part006Init == \E initialConversation \in {0, 1} : Part006Mount(initialConversation)

\* await ChatAPI.getConversations(...) settles in loadConversations
pLoadConversationsDone(outcome) ==
    /\ pListFetch
    /\ pListFetch' = FALSE
    /\ IF Settle(outcome).threw
       THEN /\ toast' = "Failed to load conversations"
            /\ UNCHANGED pConversations
       ELSE /\ pConversations' = ServerIds
            /\ toast' = "none"
    /\ UNCHANGED << currentConversation, pMessages, pInputMessage, pLoading,
                    pSend, pSent, pLoads, pCreates, pDeletes, srvTitle >>

\* await ChatAPI.getConversationMessages(...) settles in loadConversation
loadConversationDone(i, outcome, n) ==
    /\ i \in 1 .. Len(pLoads)
    /\ pLoads' = RemoveAt(pLoads, i)
    /\ IF Settle(outcome).threw
       THEN /\ toast' = "Failed to load conversation"
            /\ UNCHANGED pMessages
       ELSE /\ srvTitle[pLoads[i]] # "absent"
            /\ pMessages' = StoredMessages(pLoads[i], n)
            /\ toast' = "none"
    /\ UNCHANGED << currentConversation, pInputMessage, pLoading, pConversations,
                    pSend, pSent, pListFetch, pCreates, pDeletes, srvTitle >>

\* createNewConversation after its await: the state it sets and the toast
createNewConversation(outcome) ==
    IF Settle(outcome).threw
    THEN /\ toast' = "Failed to create conversation"
         /\ UNCHANGED << currentConversation, pMessages, pConversations, srvTitle >>
    ELSE /\ FreeConvIds # {}
         /\ LET c == CHOOSE d \in FreeConvIds : \A e \in FreeConvIds : d <= e IN
            /\ srvTitle' = [srvTitle EXCEPT ![c] = PartTitle]
            /\ currentConversation' = c
            /\ pConversations' = << c >> \o pConversations
         /\ pMessages' = <<>>
         /\ toast' = "New conversation started"

\* the New Chat button: createNewConversation up to its await
pNewChat ==
    /\ selectedLibrary
    /\ pCreates < MaxConvs
    /\ pCreates' = pCreates + 1
    /\ toast' = "none"
    /\ UNCHANGED << currentConversation, pMessages, pInputMessage, pLoading,
                    pConversations, pSend, pSent, pListFetch, pLoads,
                    pDeletes, srvTitle >>

\* the createConversation request of the New Chat button settles
pNewChatDone(outcome) ==
    /\ pCreates > 0
    /\ pCreates' = pCreates - 1
    /\ createNewConversation(outcome)
    /\ UNCHANGED << pInputMessage, pLoading, pSend, pSent, pListFetch, pLoads,
                    pDeletes >>

pSetInputMessage(t) ==
    /\ ~pLoading
    /\ t # pInputMessage
    /\ pInputMessage' = t
    /\ toast' = "none"
    /\ UNCHANGED << currentConversation, pMessages, pLoading, pConversations,
                    pSend, pSent, pListFetch, pLoads, pCreates, pDeletes,
                    srvTitle >>

\* handleSendMessage up to its first await
pHandleSendMessage ==
    /\ ~pLoading
    /\ toast' = "none"
    /\ IF Trim(pInputMessage) = <<>> \/ ~selectedLibrary
       THEN UNCHANGED << pInputMessage, pLoading, pSend, pSent >>
       ELSE /\ pSent < MaxSends
            /\ pSent' = pSent + 1
            /\ pInputMessage' = <<>>
            /\ pLoading' = TRUE
            /\ pSend' = [pc |-> IF currentConversation = 0 THEN "create" ELSE "send",
                         k |-> pSent + 1,
                         conv |-> currentConversation,
                         text |-> Trim(pInputMessage),
                         newConv |-> currentConversation = 0,
                         failed |-> FALSE,
                         created |-> 0,
                         appended |-> <<>>]
    /\ UNCHANGED << currentConversation, pMessages, pConversations, pListFetch,
                    pLoads, pCreates, pDeletes, srvTitle >>

\* await createNewConversation() settles: the handler reads the
\* currentConversation of its own render, which is still null, and returns
pSendCreateDone(outcome) ==
    /\ pSend.pc = "create"
    /\ createNewConversation(outcome)
    /\ pSend' = [pSend EXCEPT !.pc = "done",
                              !.failed = Settle(outcome).threw,
                              !.created = IF Settle(outcome).threw THEN 0 ELSE 1]
    /\ UNCHANGED << pInputMessage, pLoading, pSent, pListFetch, pLoads,
                    pCreates, pDeletes >>

\* await ChatAPI.sendMessage(conversation.id, userMessage) settles
pSendMessageDone(outcome, role) ==
    /\ pSend.pc = "send"
    /\ IF Settle(outcome).threw
       THEN /\ toast' = "Failed to send message"
            /\ pLoading' = FALSE
            /\ pSend' = [pSend EXCEPT !.pc = "done", !.failed = TRUE]
            /\ UNCHANGED pMessages
       ELSE /\ srvTitle[pSend.conv] # "absent"
            /\ pMessages' = Append(pMessages,
                                   SentMessage(pSend.k, role, pSend.text, pSend.conv))
            /\ pSend' = [pSend EXCEPT !.pc = "timer",
                                      !.appended = Append(@, role)]
            /\ toast' = "none"
            /\ UNCHANGED pLoading
    /\ UNCHANGED << currentConversation, pInputMessage, pConversations, pSent,
                    pListFetch, pLoads, pCreates, pDeletes, srvTitle >>

\* the setTimeout callback
pSimulatedResponse ==
    /\ pSend.pc = "timer"
    /\ pMessages' = Append(pMessages, SimulatedResponse(pSend.k))
    /\ pLoading' = FALSE
    /\ pSend' = [pSend EXCEPT !.pc = "done", !.appended = Append(@, "assistant")]
    /\ toast' = "none"
    /\ UNCHANGED << currentConversation, pInputMessage, pConversations, pSent,
                    pListFetch, pLoads, pCreates, pDeletes, srvTitle >>

pSelectConversation(c) ==
    /\ \E i \in 1 .. Len(pConversations) : pConversations[i] = c
    /\ Len(pLoads) < MaxMsgFetches
    /\ currentConversation' = c
    /\ pLoads' = Append(pLoads, c)
    /\ toast' = "none"
    /\ UNCHANGED << pMessages, pInputMessage, pLoading, pConversations, pSend,
                    pSent, pListFetch, pCreates, pDeletes, srvTitle >>

\* deleteConversation up to its await; confirmed is the answer to confirm()
pDeleteConversation(c, confirmed) ==
    /\ \E i \in 1 .. Len(pConversations) : pConversations[i] = c
    /\ pDeletes' = IF confirmed
                   THEN pDeletes \cup {[id |-> c, current |-> currentConversation]}
                   ELSE pDeletes
    /\ toast' = "none"
    /\ UNCHANGED << currentConversation, pMessages, pInputMessage, pLoading,
                    pConversations, pSend, pSent, pListFetch, pLoads, pCreates,
                    srvTitle >>

\* await ChatAPI.deleteConversation(conversationId) settles
pDeleteConversationDone(d, outcome) ==
    /\ d \in pDeletes
    /\ pDeletes' = pDeletes \ {d}
    /\ IF outcome.ok /\ srvTitle[d.id] # "absent"
       THEN /\ srvTitle' = [srvTitle EXCEPT ![d.id] = "absent"]
            /\ pConversations' = SelectSeq(pConversations, LAMBDA c : c # d.id)
            /\ IF d.current = d.id
               THEN /\ currentConversation' = 0
                    /\ pMessages' = <<>>
               ELSE UNCHANGED << currentConversation, pMessages >>
            /\ toast' = "Conversation deleted"
       ELSE /\ toast' = "Failed to delete conversation"
            /\ UNCHANGED << currentConversation, pMessages, pConversations, srvTitle >>
    /\ UNCHANGED << pInputMessage, pLoading, pSend, pSent, pListFetch, pLoads,
                    pCreates >>

\* a step of the part_006 revision
Part006Step ==
    Tick /\ UNCHANGED << chatVars, deletes, prompted, pureVars, enhancedVars, scope,
                        convScope >>

NextPart006 ==
    \/ Part006Step /\ \E o \in Outcomes : pLoadConversationsDone(o)
    \/ Part006Step /\ \E i \in 1 .. Len(pLoads), o \in Outcomes, n \in 0 .. MaxStored :
            loadConversationDone(i, o, n)
    \/ Part006Step /\ pNewChat
    \/ Part006Step /\ \E o \in Outcomes : pNewChatDone(o)
    \/ Part006Step /\ \E t \in Texts : pSetInputMessage(t)
    \/ Part006Step /\ pHandleSendMessage
    \/ Part006Step /\ \E o \in Outcomes : pSendCreateDone(o)
    \/ Part006Step /\ \E o \in Outcomes, role \in {"user", "assistant"} :
            pSendMessageDone(o, role)
    \/ Part006Step /\ pSimulatedResponse
    \/ Part006Step /\ \E c \in ConvIds : pSelectConversation(c)
    \/ Part006Step /\ \E c \in ConvIds, confirmed \in BOOLEAN : pDeleteConversation(c, confirmed)
    \/ Part006Step /\ \E d \in pDeletes, o \in Outcomes : pDeleteConversationDone(d, o)

----------------------------------------------------------------------------
(* The reasoning parse of loadMessages and handleSendMessage.  A content   *)
(* is a sequence of tokens: the two markers, white space, and text.        *)

OpenMarker == "<reasoning>"
CloseMarker == "</reasoning>"
Alphabet == {OpenMarker, CloseMarker, " ", "a"}

RECURSIVE StringsOf(_)
StringsOf(n) ==
    IF n = 0 THEN { <<>> }
    ELSE LET shorter == StringsOf(n - 1)
         IN shorter \cup { Append(t, c) : t \in {u \in shorter : Len(u) = n - 1},
                                          c \in Alphabet }

NothingParsed == [content |-> <<>>, reasoning |-> <<>>, hasReasoning |-> FALSE]

\* the least index from `from` on at which s holds tok, 0 if there is none
RECURSIVE IndexFrom(_, _, _)
IndexFrom(s, tok, from) ==
    IF from > Len(s) THEN 0
    ELSE IF s[from] = tok THEN from
    ELSE IndexFrom(s, tok, from + 1)

\* raw.match(/<reasoning>([\s\S]*?)<\/reasoning>/): the leftmost start marker
\* that an end marker follows, up to the first end marker behind it
ReasoningMatch(s) ==
    LET start == IndexFrom(s, OpenMarker, 1)
        end == IF start = 0 THEN 0 ELSE IndexFrom(s, CloseMarker, start + 1)
    IN [found |-> start # 0 /\ end # 0, start |-> start, end |-> end]

\* the parse that leaves the text around the block and inside it untrimmed
ParseReasoningUntrimmed(s) ==
    LET m == ReasoningMatch(s) IN
    IF m.found
    THEN [content |-> SubSeq(s, 1, m.start - 1) \o SubSeq(s, m.end + 1, Len(s)),
          reasoning |-> SubSeq(s, m.start + 1, m.end - 1),
          hasReasoning |-> TRUE]
    ELSE [content |-> s, reasoning |-> <<>>, hasReasoning |-> FALSE]

\* the parse that cuts an unclosed block off the content
ParseReasoningCutUnclosed(s) ==
    LET m == ReasoningMatch(s) IN
    IF m.found
    THEN [content |-> Trim(SubSeq(s, 1, m.start - 1) \o SubSeq(s, m.end + 1, Len(s))),
          reasoning |-> Trim(SubSeq(s, m.start + 1, m.end - 1)),
          hasReasoning |-> TRUE]
    ELSE IF m.start # 0
    THEN [content |-> SubSeq(s, 1, m.start - 1), reasoning |-> <<>>,
          hasReasoning |-> FALSE]
    ELSE [content |-> s, reasoning |-> <<>>, hasReasoning |-> FALSE]

\* content and reasoning as the parse leaves them; reasoning is undefined
\* (hasReasoning FALSE) when nothing matched
ParseReasoning(s) ==
    LET m == ReasoningMatch(s) IN
    IF m.found
    THEN [content |-> Trim(SubSeq(s, 1, m.start - 1) \o SubSeq(s, m.end + 1, Len(s))),
          reasoning |-> Trim(SubSeq(s, m.start + 1, m.end - 1)),
          hasReasoning |-> TRUE]
    ELSE [content |-> s, reasoning |-> <<>>, hasReasoning |-> FALSE]

\* contents the server stores
StoredContents ==
    { <<"a">>,
      <<OpenMarker, "a", CloseMarker, " ", "a">>,
      <<" ", "a", " ">>,
      <<OpenMarker, "a">> }
SourceReferences == {"none", "doc.pdf p.12"}

ApiMessages ==
    [role : {"user", "assistant"}, content : StoredContents,
     source_reference : SourceReferences]

RECURSIVE ListsOf(_, _)
ListsOf(S, n) ==
    IF n = 0 THEN { <<>> }
    ELSE LET shorter == ListsOf(S, n - 1)
         IN shorter \cup { Append(t, x) : t \in {u \in shorter : Len(u) = n - 1},
                                          x \in S }

\* one element of messagesData.map(...)
FormatMessage(msg) ==
    LET p == ParseReasoning(msg.content) IN
    [type |-> msg.role, content |-> p.content, reasoning |-> p.reasoning,
     hasReasoning |-> p.hasReasoning, source_reference |-> msg.source_reference]

\* the map that formats only the assistant messages and drops the others
FormatAssistantMessages(data) ==
    LET kept == SelectSeq(data, LAMBDA msg : msg.role = "assistant")
    IN [i \in 1 .. Len(kept) |-> FormatMessage(kept[i])]

\* messagesData.map(...)
FormatMessages(data) == [i \in 1 .. Len(data) |-> FormatMessage(data[i])]

\* nothing to parse
ParseIdle ==
    /\ raw = <<>>
    /\ parsed = NothingParsed
    /\ messagesData = <<>>
    /\ formattedMessages = <<>>
    /\ parsePc = "done"

\* a content to parse, or a list of messages to format
ParseInit ==
    \/ /\ raw \in StringsOf(MaxLen)
       /\ parsed = NothingParsed
       /\ messagesData = <<>>
       /\ formattedMessages = <<>>
       /\ parsePc = "content"
    \/ /\ raw = <<>>
       /\ parsed = NothingParsed
       /\ messagesData \in ListsOf(ApiMessages, MaxMessages)
       /\ formattedMessages = <<>>
       /\ parsePc = "list"

\* the parse runs on raw
parseContent ==
    /\ parsePc = "content"
    /\ parsed' = ParseReasoning(raw)
    /\ parsePc' = "done"
    /\ UNCHANGED << raw, messagesData, formattedMessages >>

\* the map runs on messagesData
formatLoaded ==
    /\ parsePc = "list"
    /\ formattedMessages' = FormatMessages(messagesData)
    /\ parsePc' = "done"
    /\ UNCHANGED << raw, parsed, messagesData >>

ParseStep ==
    UNCHANGED << chatVars, deletes, prompted, transportVars, enhancedVars,
                 part006Vars, toast, events, scope, server >>

NextParse ==
    \/ ParseStep /\ parseContent
    \/ ParseStep /\ formatLoaded

----------------------------------------------------------------------------
(* The transport layer: one ChatAPI call and the Response it receives      *)

Operations ==
    {"getConversations", "getConversationMessages", "createConversation",
     "sendMessage", "deleteConversation", "updateConversation"}

\* Responses: status, the detail of the JSON body ("" when the body has
\* none or is no JSON), and the status line text
Responses ==
    { [ok |-> st = 200, status |-> st, detail |-> d, statusText |-> t] :
        st \in {200, 400, 404, 500},
        d \in {"", "LLM unavailable"},
        t \in {"", "Internal Server Error"} }

\* new Error(message): an Error object carries its message and nothing of
\* the response
Error(message) == [message |-> message]

NoResult == [settled |-> FALSE, threw |-> FALSE, error |-> Error("")]

\* a ChatAPI function after fetch has resolved
ChatAPI(op, resp) ==
    IF op = "deleteConversation"
    THEN [settled |-> TRUE,
          threw |-> ~resp.ok,
          error |-> Error(IF resp.ok THEN "" ELSE "Failed to delete conversation")]
    ELSE [settled |-> TRUE,
          threw |-> handleApiResponse(resp).threw,
          error |-> Error(handleApiResponse(resp).message)]

TransportIdle ==
    /\ operation = "none"
    /\ response = OkResponse
    /\ result = NoResult

TransportInit ==
    /\ operation \in Operations
    /\ response \in Responses
    /\ result = NoResult

\* fetch resolves and the function runs to its return or throw
callSettles ==
    /\ ~result.settled
    /\ result' = ChatAPI(operation, response)
    /\ UNCHANGED << operation, response >>

TransportStep ==
    UNCHANGED << chatVars, deletes, prompted, parseVars, enhancedVars,
                 part006Vars, toast, events, scope, server >>

NextTransport == TransportStep /\ callSettles

PureIdle == ParseIdle /\ TransportIdle

----------------------------------------------------------------------------
\* a step of the API-backed ChatInterface
ChatStep ==
    /\ Tick
    /\ prompted' = "unasked"
    /\ UNCHANGED << scope, deletes, pureVars, enhancedVars, part006Vars >>

\* a step of renameConversation up to its await
RenameStep == Tick /\ UNCHANGED << scope, deletes, pureVars, enhancedVars, part006Vars >>

Next ==
    \/ ChatStep /\ \E t \in Texts : setInputMessage(t)
    \/ ChatStep /\ handleSendMessage
    \/ ChatStep /\ \E s \in sends, o \in Outcomes : createConversationDone(s, o)
    \/ ChatStep /\ \E s \in sends, o \in Outcomes : sendMessageDone(s, o)
    \/ ChatStep /\ startNewConversation
    \/ ChatStep /\ \E c \in conversations : selectConversation(c)
    \/ ChatStep /\ handleResume
    \/ ChatStep /\ \E i \in 1 .. Len(msgFetches), o \in Outcomes, n \in 0 .. MaxStored :
            loadMessagesDone(i, o, n)
    \/ ChatStep /\ \E i \in 1 .. Len(convFetches), o \in Outcomes : loadConversationsDone(i, o)
    \/ RenameStep /\ \E c \in conversations, t \in PromptInputs : renameConversation(c, t)
    \/ ChatStep /\ \E r \in renames, o \in Outcomes : updateConversationDone(r, o)

\* a step of the deleteConversation handler of the API-backed ChatInterface
DeleteStep ==
    /\ Tick
    /\ prompted' = "unasked"
    /\ UNCHANGED << scope, pureVars, enhancedVars, part006Vars >>

\* the API-backed ChatInterface with its deleteConversation handler invoked
NextDelete ==
    \/ Next
    \/ DeleteStep /\ \E c \in conversations, confirmed \in BOOLEAN :
            deleteConversation(c, confirmed)
    \/ DeleteStep /\ \E d \in deletes, o \in Outcomes : deleteConversationDone(d, o)

\* a step in which the parent changes the props of the API-backed ChatInterface
ScopeStep ==
    /\ Tick
    /\ prompted' = "unasked"
    /\ UNCHANGED << deletes, pureVars, enhancedVars, part006Vars >>

\* the API-backed ChatInterface under a parent that changes the selected
\* library or document
NextScope ==
    \/ Next
    \/ ScopeStep /\ \E l \in Scopes : selectScope(l)

Init == ChatInit /\ ServerInit /\ EnhancedMount(0) /\ Part006Mount(0) /\ PureIdle

Spec == Init /\ [][Next]_vars

SpecDelete == Init /\ [][NextDelete]_vars

SpecScope == Init /\ [][NextScope]_vars

InitEnhanced ==
    /\ ChatMount(FALSE, NoConv) /\ ServerInit /\ EnhancedInit /\ Part006Mount(0)
    /\ PureIdle

SpecEnhanced == InitEnhanced /\ [][NextEnhanced]_vars

InitPart006 ==
    /\ ChatMount(TRUE, NoConv) /\ ServerInit /\ EnhancedMount(0) /\ Part006Init
    /\ PureIdle

SpecPart006 == InitPart006 /\ [][NextPart006]_vars

InitParse ==
    /\ ChatMount(FALSE, NoConv) /\ ServerInit /\ EnhancedMount(0) /\ Part006Mount(0)
    /\ ParseInit
    /\ TransportIdle

SpecParse == InitParse /\ [][NextParse]_vars

InitTransport ==
    /\ ChatMount(FALSE, NoConv) /\ ServerInit /\ EnhancedMount(0) /\ Part006Mount(0)
    /\ ParseIdle
    /\ TransportInit

SpecTransport == InitTransport /\ [][NextTransport]_vars

----------------------------------------------------------------------------
(* Properties of the API-backed ChatInterface *)

IsUser(m) == m.type = "user"

\* send s leaves the handler in this step with its assistant reply appended
Replied(s) ==
    /\ \A t \in sends' : t.k # s.k
    /\ messages' = Append(messages, AiMessage(s.k, s.conv))

\* send s leaves the handler in this step with the apology appended
Apologised(s) ==
    /\ \A t \in sends' : t.k # s.k
    /\ messages' = Append(messages, ErrorMessageEntry(s.k))

\* send s leaves the handler in this step without an assistant reply
Failed(s) ==
    /\ \A t \in sends' : t.k # s.k
    /\ ~Replied(s)

\* C1: a send in flight disables further sends until it resolves: message
\* N+1 is never appended optimistically while message N still awaits its
\* reply or failure message, so at most one send is in flight and it is the
\* one accepted last.
C1_SendsNeverInterleave ==
    /\ Cardinality(sends) <= 1
    /\ \A s \in sends : s.k = nextSend

\* C2: the reply or failure message of a send for conversation c is never
\* appended once the active conversation is no longer c.
C2_StaleReplyDiscarded ==
    [][\A s \in sends :
          (s.conv # 0 /\ activeConversation.id # s.conv)
             => ~(Replied(s) \/ Apologised(s))]_vars

\* C3: the successful response of a fetch that a later-initiated fetch of the
\* same kind has already answered never changes what the store shows.
C3_LastInitiatedWins ==
    [][/\ \A i \in 1 .. Len(convFetches) :
             (convFetches[i].stale /\ loadConversationsDone(i, OkResponse))
                => conversations' = conversations
       /\ \A i \in 1 .. Len(msgFetches), n \in 0 .. MaxStored :
             (msgFetches[i].stale /\ loadMessagesDone(i, OkResponse, n))
                => messages' = messages]_vars

\* C4: a send accepted with no conversation active whose requests all
\* succeeded has created one conversation and appended two messages, the
\* user message and then the assistant message.
C4_FirstSendAppendsTwo ==
    (pSend.pc = "done" /\ pSend.newConv /\ ~pSend.failed)
       => (pSend.created = 1 /\ pSend.appended = << "user", "assistant" >>)

\* C5: once a request of the send under way (session creation or message
\* persistence) has completed, the user message of that send is in the list.
C5_UserMessageShownFirst ==
    eSend.completed > 0
       => \E i \in 1 .. Len(eMessages) :
             /\ eMessages[i].role = "user"
             /\ eMessages[i].content = eSend.text

\* C6: when a send fails at any step, exactly one apology message is appended
\* behind everything the list held (the user message included), an error
\* notification is raised, and an apology enters the list in no other way.
C6_FailureAppendsOneApology ==
    [][/\ \A s \in sends :
             Failed(s) => /\ Apologised(s)
                          /\ toast' = "Failed to send message"
                          /\ \A i \in 1 .. Len(messages) : messages'[i] = messages[i]
       /\ \A k \in 1 .. MaxSends :
             (Cardinality({i \in 1 .. Len(messages') : messages'[i] = ErrorMessageEntry(k)})
                > Cardinality({i \in 1 .. Len(messages) : messages[i] = ErrorMessageEntry(k)}))
             => \E s \in sends : s.k = k /\ Failed(s)]_vars

\* a failed send whose user message and apology are both in the list, the
\* conversation having been created before the submission failed
C6_Witness ==
    /\ toast = "Failed to send message"
    /\ activeConversation # NoConv
    /\ sends = {}
    /\ \E i \in 1 .. Len(messages) - 1 :
          /\ IsUser(messages[i])
          /\ messages[i + 1] = ErrorMessageEntry(messages[i].send)

\* C7: a send answered with a non-2xx status and a body {detail: d} raises
\* the notification d, appends the apology and keeps the user message.
C7_DetailIsSurfaced ==
    [][\A s \in sends, o \in ErrorResponses :
          sendMessageDone(s, o)
             => /\ toast' = o.detail
                /\ Apologised(s)]_vars

\* C8: selecting a conversation from history always yields PendingResume
\* with an empty message list.
C8_SelectClearsMessages ==
    [][\A c \in conversations :
          selectConversation(c) => (resumePending' /\ messages' = <<>>)]_vars

\* C9: a fetch of a conversation's messages is issued only by confirming the
\* resume prompt, and it asks for the conversation active at that moment;
\* construction issues none, with or without an initial conversation.
C9_FetchOnlyOnResume ==
    [][Len(msgFetches') > Len(msgFetches)
          => /\ resumePending /\ ~resumePending'
             /\ activeConversation # NoConv
             /\ activeConversation' = activeConversation
             /\ msgFetches' = Append(msgFetches, NewMsgFetch(activeConversation.id))]_vars

\* a resume confirmed for the active conversation, its fetch in flight
C9_Witness ==
    /\ msgFetches # <<>>
    /\ ~resumePending
    /\ msgFetches[Len(msgFetches)].conv = activeConversation.id
    /\ activeFromList

\* C10: when the message fetch of a confirmed resume fails and its
\* conversation is still the active one, the controller is back in
\* PendingResume.
C10_FailedResumeReturnsToPending ==
    [][\A i \in 1 .. Len(msgFetches), o \in Outcomes \ {OkResponse}, n \in 0 .. MaxStored :
          (loadMessagesDone(i, o, n) /\ msgFetches[i].conv = activeConversation.id)
             => (resumePending' /\ activeConversation' # NoConv)]_vars

\* C11: New Chat, from any state, leaves no active conversation, no resume
\* prompt, and a message list that holds exactly the greeting.
C11_NewChatReseeds ==
    [][startNewConversation =>
          /\ activeConversation' = NoConv
          /\ ~resumePending'
          /\ messages' = << Greeting >>]_vars

\* New Chat has replaced a list that held the messages of a send
C11_Witness ==
    /\ activeConversation = NoConv
    /\ ~resumePending
    /\ messages = << Greeting >>
    /\ nextSend > 0
    /\ sends = {}
    /\ msgFetches = <<>>

\* C12: a delete of conversation c that succeeds leaves no conversation active
\* when c is the active one at that moment, and leaves the active conversation
\* and the messages alone when it is not.
C12_DeleteFollowsActive ==
    [][\A d \in pDeletes :
          (pDeleteConversationDone(d, OkResponse) /\ srvTitle[d.id] # "absent")
             => IF currentConversation = d.id
                THEN currentConversation' = 0
                ELSE /\ currentConversation' = currentConversation
                     /\ pMessages' = pMessages]_vars

\* C13: once a delete has succeeded and the list refresh it started has
\* settled, the list holds no conversation that the server has deleted.
C13_DeletedLeavesList ==
    convFetches = <<>> => \A c \in conversations : srvTitle[c.id] # "absent"

\* C14: a rename whose prompt is cancelled, left empty or answered with the
\* current title starts no request and changes no title, neither on the
\* server, nor in the list, nor on the active conversation.
C14_NoOpRename ==
    [][(prompted' \in {"null", ""}
          \/ \E c \in conversations : renameConversation(c, c.title))
         => UNCHANGED << renames, nextRename, convFetches, conversations,
                         activeConversation, srvTitle >>]_vars

\* the prompt was answered with the title the conversation already has
C14_Witness ==
    /\ prompted = DefaultTitle
    /\ nextRename = 0
    /\ renames = {}
    /\ conversations = {[id |-> 1, title |-> DefaultTitle]}
    /\ srvTitle[1] = DefaultTitle

\* C15: once every rename and every list refresh has settled, the list and
\* the active conversation carry the titles the server holds: the new title
\* after a rename that succeeded, the prior one after a rename that failed.
C15_RenameVisibleEverywhere ==
    (renames = {} /\ convFetches = <<>>)
       => /\ \A c \in conversations : c.title = srvTitle[c.id]
          /\ activeConversation # NoConv
                => activeConversation.title = srvTitle[activeConversation.id]

CountOf(s, tok) == Cardinality({i \in 1 .. Len(s) : s[i] = tok})

\* s holds one start marker and one end marker, in this order
OneWellFormedBlock(s) ==
    /\ CountOf(s, OpenMarker) = 1
    /\ CountOf(s, CloseMarker) = 1
    /\ \E i, j \in 1 .. Len(s) : i < j /\ s[i] = OpenMarker /\ s[j] = CloseMarker

\* C16: a content with exactly one well-formed reasoning block is parsed into
\* the trimmed text inside the block and the trimmed text around it.
C16_OneBlockDecoded ==
    (parsePc = "done" /\ OneWellFormedBlock(raw))
       => LET i == CHOOSE k \in 1 .. Len(raw) : raw[k] = OpenMarker
              j == CHOOSE k \in 1 .. Len(raw) : raw[k] = CloseMarker
          IN /\ parsed.hasReasoning
             /\ parsed.reasoning = Trim(SubSeq(raw, i + 1, j - 1))
             /\ parsed.content =
                   Trim(SubSeq(raw, 1, i - 1) \o SubSeq(raw, j + 1, Len(raw)))

\* a block behind text and white space has been parsed
C16_Witness ==
    /\ parsePc = "done"
    /\ raw = << "a", " ", OpenMarker, "a", CloseMarker >>
    /\ parsed = [content |-> << "a" >>, reasoning |-> << "a" >>, hasReasoning |-> TRUE]

\* C17: a content without markers is parsed into its trimmed text and no
\* reasoning.
C17_PlainIsTrimmed ==
    (parsePc = "done" /\ CountOf(raw, OpenMarker) = 0 /\ CountOf(raw, CloseMarker) = 0)
       => (parsed.content = Trim(raw) /\ ~parsed.hasReasoning)

\* C18: a content with a start marker and no end marker is passed through
\* unmodified, with no reasoning.
C18_UnclosedPassesThrough ==
    (parsePc = "done" /\ CountOf(raw, OpenMarker) > 0 /\ CountOf(raw, CloseMarker) = 0)
       => (parsed.content = raw /\ ~parsed.hasReasoning)

\* an unclosed block between text and white space has been parsed
C18_Witness ==
    /\ parsePc = "done"
    /\ raw = << "a", OpenMarker, "a", " " >>
    /\ parsed.content = raw
    /\ ~parsed.hasReasoning

C20_FailureCarriesDetailAndStatus ==
    (result.settled /\ ~response.ok)
       => /\ result.threw
          /\ result.error.message =
                (IF response.detail # "" THEN response.detail ELSE response.statusText)
          /\ "status" \in DOMAIN result.error
          /\ result.error.status = response.status

----------------------------------------------------------------------------
(* Refresh, failure and guard contracts *)

\* C21: when a send that created a conversation leaves its handler, whether
\* its message submission succeeded or failed, a refresh of the
\* known-conversations list is issued, so that the conversation reaches the
\* history without a further user action.
C21_CreatedConversationListed ==
    [][\A s \in sends :
          (s.isNew /\ s.conv # 0 /\ \A t \in sends' : t.k # s.k)
             => convFetches' = Append(convFetches, NewListFetch)]_vars

\* C22: a failed read (the list of conversations, the messages of a
\* conversation) raises a notification and leaves conversations,
\* activeConversation and messages as they were.
C22_FailedReadKeepsState ==
    [][/\ \A i \in 1 .. Len(convFetches), o \in Outcomes \ {OkResponse} :
             loadConversationsDone(i, o)
                => /\ toast' = "Failed to load conversation history"
                   /\ UNCHANGED << conversations, activeConversation, messages >>
       /\ \A i \in 1 .. Len(msgFetches), o \in Outcomes \ {OkResponse}, n \in 0 .. MaxStored :
             loadMessagesDone(i, o, n)
                => /\ toast' = "Failed to load conversation messages"
                   /\ UNCHANGED << conversations, activeConversation, messages >>]_vars

\* the message fetch of a resumed conversation has just failed, and the
\* list, the active conversation and the messages shown are all still there
C22_Witness ==
    /\ toast = "Failed to load conversation messages"
    /\ activeConversation # NoConv
    /\ conversations # {}
    /\ messages = << Greeting >>

\* C23: handleSendMessage with a blank text (empty or whitespace only) or
\* with no library selected appends no message, issues no request, creates
\* no conversation and does not set the loading flag.
C23_GuardedSendIsNoOp ==
    [][(handleSendMessage /\ (Trim(inputMessage) = <<>> \/ ~selectedLibrary))
          => UNCHANGED << messages, sends, nextSend, loading, srvTitle,
                          convFetches, msgFetches, renames, activeConversation >>]_vars

\* a send of a non-blank text has just been refused for want of a library
C23_Witness ==
    /\ toast = "Please select a library first"
    /\ ~selectedLibrary
    /\ Trim(inputMessage) # <<>>
    /\ messages = << Greeting >>
    /\ sends = {}
    /\ ~loading

\* C24: the step in which an accepted send leaves its handler, on success,
\* on a failed conversation creation and on a failed submission, leaves the
\* loading flag false.
C24_SendResolvesNotLoading ==
    [][(pSend.pc # "done" /\ pSend'.pc = "done") => ~pLoading']_vars

----------------------------------------------------------------------------
(* Stripping of the reasoning block *)

\* s holds a reasoning block: a start marker with an end marker behind it
HasBlock(s) ==
    \E i \in 1 .. Len(s), j \in 1 .. Len(s) :
        i < j /\ s[i] = OpenMarker /\ s[j] = CloseMarker

\* C25: for every raw assistant content the decoded visible content holds no
\* reasoning block, i.e. no start marker followed later by an end marker.
C25_NoBlockInContent ==
    parsePc = "done" => ~HasBlock(parsed.content)

----------------------------------------------------------------------------
(* Resume prompt, submissions and rename completion *)

\* C26: the resume prompt is entered only by picking a conversation from
\* history (or, at construction, by an initial conversation): neither the
\* creation of a conversation by a first send nor a rename of the active
\* conversation sets resumePending.
C26_ResumeOnlyBySelection ==
    [][(~resumePending /\ resumePending')
          => \E c \in conversations : selectConversation(c)]_vars

\* C27: an accepted send submits its text to the chat endpoint exactly once:
\* once a ChatAPI.sendMessage of the send has succeeded, the send issues no
\* further request.
C27_OneSubmissionPerSend ==
    [][\A s \in sends :
          sendMessageDone(s, OkResponse) => \A t \in sends' : t.k # s.k]_vars

\* C28: the completion of a rename request never changes which conversation
\* is active.
C28_RenameKeepsActive ==
    [][\A r \in renames, o \in Outcomes :
          updateConversationDone(r, o)
             => activeConversation'.id = activeConversation.id]_vars

----------------------------------------------------------------------------
(* Sends and the selected scope *)

\* C29: every chat submission goes to a conversation of the scope selected
\* when the send was accepted: a conversation that was active under a scope
\* the parent has since left is never the target of a later send.
C29_SendTargetsSelectedScope ==
    \A s \in sends : s.conv # 0 => convScope[s.conv] = s.scope

----------------------------------------------------------------------------
(* The optimistic user message *)

\* the list shows the user message that send number k appended
ShowsUserMessage(list, k) ==
    \E i \in 1 .. Len(list) : IsUser(list[i]) /\ list[i].send = k

\* C30: while a send is in flight its optimistically appended user message
\* stays in the list, unless the user picks another conversation or starts a
\* new chat: no creation, resume load or rename replaces the list or removes
\* the message, so that the reply or apology of the send lands behind it.
C30_UserMessageStays ==
    [][\A s \in sends :
          (/\ ShowsUserMessage(messages, s.k)
           /\ ~startNewConversation
           /\ ~(\E c \in conversations : selectConversation(c)))
             => ShowsUserMessage(messages', s.k)]_vars

====
